---- MODULE Spec2Model ----
(***************************************************************************)
(* Model of VictoriaMetricsClient (src/src/types.ts, lines 127-367): the   *)
(* buffered write engine.  writePoint encodes a point and appends the line *)
(* to the buffer; flush runs under the async mutex, drains the buffer into *)
(* a snapshot, sends it, and puts it back at the front when the send       *)
(* fails; a periodic timer and shutdown invoke flush.                      *)
(*                                                                         *)
(* Strings are sequences of one-character strings.  Every buffered line    *)
(* carries its rank among the accepted lines (id), which is bookkeeping of *)
(* the model: the program stores the text only.                            *)
(***************************************************************************)
EXTENDS Integers, Sequences, FiniteSets, TLC

\* ------------------------------------------------------------------ bounds
MaxWrites == 3      \* lines accepted in one behaviour
MaxPending == 2     \* flush invocations an application or the timer piles up
MaxBatch == 3       \* largest configured batchSize
MaxStr == 2         \* longest name or string value handed to the encoder
MaxNum == 10        \* largest magnitude of a number field
MaxMs == 11         \* latest timestamp, in milliseconds

\* ------------------------------------------------------- line protocol text
RECURSIVE escapeTag(_)
\* s.replace(/([,= ])/g, '\\$1')
escapeTag(s) ==
    IF s = <<>> THEN <<>>
    ELSE (IF Head(s) \in {",", "=", " "} THEN <<"\\", Head(s)>> ELSE <<Head(s)>>)
         \o escapeTag(Tail(s))

RECURSIVE escapeBackslash(_)
\* s.replace(/\\/g, '\\\\')
escapeBackslash(s) ==
    IF s = <<>> THEN <<>>
    ELSE (IF Head(s) = "\\" THEN <<"\\", "\\">> ELSE <<Head(s)>>)
         \o escapeBackslash(Tail(s))

RECURSIVE escapeQuote(_)
\* s.replace(/"/g, '\\"')
escapeQuote(s) ==
    IF s = <<>> THEN <<>>
    ELSE (IF Head(s) = "\"" THEN <<"\\", "\"">> ELSE <<Head(s)>>)
         \o escapeQuote(Tail(s))

escapeStringFieldQuotesFirst(s) == escapeBackslash(escapeQuote(s))

\* backslashes first, then double quotes
escapeStringField(s) == escapeQuote(escapeBackslash(s))

RECURSIVE escapeMeasurementCommaOnly(_)
escapeMeasurementCommaOnly(s) ==
    IF s = <<>> THEN <<>>
    ELSE (IF Head(s) = "," THEN <<"\\", Head(s)>> ELSE <<Head(s)>>)
         \o escapeMeasurementCommaOnly(Tail(s))

RECURSIVE escapeMeasurement(_)
\* point.measurement.replace(/([, ])/g, '\\$1')
escapeMeasurement(s) ==
    IF s = <<>> THEN <<>>
    ELSE (IF Head(s) \in {",", " "} THEN <<"\\", Head(s)>> ELSE <<Head(s)>>)
         \o escapeMeasurement(Tail(s))

Digit(d) == <<"0", "1", "2", "3", "4", "5", "6", "7", "8", "9">>[d + 1]

RECURSIVE natToString(_)
natToString(n) ==
    IF n < 10 THEN <<Digit(n)>> ELSE natToString(n \div 10) \o <<Digit(n % 10)>>

\* `${v}` for an integral number
numberToString(n) == IF n < 0 THEN <<"-">> \o natToString(-n) ELSE natToString(n)

RECURSIVE join(_, _)
\* Array.prototype.join
join(parts, sep) ==
    IF parts = <<>> THEN <<>>
    ELSE IF Len(parts) = 1 THEN parts[1]
    ELSE parts[1] \o sep \o join(Tail(parts), sep)

WhiteSpace == {" ", "\t", "\n"}

RECURSIVE trimStart(_)
trimStart(s) ==
    IF s # <<>> /\ Head(s) \in WhiteSpace THEN trimStart(Tail(s)) ELSE s

RECURSIVE trimEnd(_)
trimEnd(s) ==
    IF s # <<>> /\ s[Len(s)] \in WhiteSpace
    THEN trimEnd(SubSeq(s, 1, Len(s) - 1)) ELSE s

\* String.prototype.trim
trim(s) == trimEnd(trimStart(s))

\* one entry of Object.entries(point.tags)
formatTag(t) == escapeTag(t.k) \o <<"=">> \o escapeTag(t.v)

\* one entry of Object.entries(point.fields); <<>> stands for the null that
\* .filter(Boolean) removes
formatField(f) ==
    LET key == escapeTag(f.k) IN
    CASE f.type = "string"  -> key \o <<"=", "\"">> \o escapeStringField(f.s) \o <<"\"">>
      [] f.type = "boolean" -> key \o <<"=">> \o (IF f.b THEN <<"t">> ELSE <<"f">>)
      [] f.type = "number"  -> key \o <<"=">> \o numberToString(f.n)
      [] OTHER -> <<>>

formatTags(point) == join([i \in 1..Len(point.tags) |-> formatTag(point.tags[i])], <<",">>)

formatFields(point) ==
    join(SelectSeq([i \in 1..Len(point.fields) |-> formatField(point.fields[i])],
                   LAMBDA x : x # <<>>), <<",">>)

formatNeverThrows(point) == FALSE

\* formatLineProtocol throws exactly when the joined fields are empty
formatThrows(point) == Len(formatFields(point)) = 0

\* point.timestamp ? (point.timestamp.getTime() * 1_000_000).toString() : ''
\* (a Date object is truthy whatever its instant).  The instant is
\* ms * 10^exp10 milliseconds; exp10 is 0, or 15 with ms in 1..8 for the far
\* instants, whose product is 10^21 or more and which Number.prototype.toString
\* therefore writes in exponent notation.
formatTimestamp(point) ==
    IF ~point.timestamp.present THEN <<>>
    ELSE IF point.timestamp.exp10 = 0
         THEN numberToString(point.timestamp.ms * 1000000)
         ELSE <<Digit(point.timestamp.ms), "e", "+">>
              \o natToString(point.timestamp.exp10 + 6)

\* the template string `${measurementAndTags} ${fields} ${timestamp}`
formatUntrimmed(point) ==
    LET tags == formatTags(point)
        fields == formatFields(point)
        measurement == escapeMeasurement(point.measurement)
        timestamp == formatTimestamp(point)
        measurementAndTags ==
            IF Len(tags) > 0 THEN measurement \o <<",">> \o tags ELSE measurement
    IN measurementAndTags \o <<" ">> \o fields \o <<" ">> \o timestamp

formatLineProtocol(point) == trim(formatUntrimmed(point))

\* ------------------------------------------------------------------ inputs
NoTime == [present |-> FALSE, ms |-> 0, exp10 |-> 0]
NumField(k, n) == [k |-> k, type |-> "number", s |-> <<>>, b |-> FALSE, n |-> n]
StrField(k, s) == [k |-> k, type |-> "string", s |-> s, b |-> FALSE, n |-> 0]

\* the points an application hands to writePoint in this model: one that
\* encodes and one without fields
Points ==
    { [measurement |-> <<"l", " ", "g">>, tags |-> <<[k |-> <<"a">>, v |-> <<"x", "=">>]>>,
       fields |-> <<StrField(<<"m">>, <<"\"">>), NumField(<<"v">>, 1)>>, timestamp |-> [present |-> TRUE, ms |-> 2, exp10 |-> 0]],
      [measurement |-> <<"n", "o">>, tags |-> <<>>,
       fields |-> <<>>, timestamp |-> NoTime] }

\* the batch sizes an application configures in this model: a flush on every
\* write, and a flush on every MaxBatch-th write
BatchSizes == {1, MaxBatch}

\* the characters of the names and string values handed to the encoder: a
\* plain one, the ones some escaping rule names, and a white space character
\* that no rule names
Chars == {"a", ",", "=", " ", "\\", "\"", "\t"}

Strs(n) == UNION {[1..k -> Chars] : k \in 0..n}

BoolField(k, b) == [k |-> k, type |-> "boolean", s |-> <<>>, b |-> b, n |-> 0]

Time(ms) == [present |-> TRUE, ms |-> ms, exp10 |-> 0]

\* new Date(k * 1e15): instants of the years 33658 and later, up to the
\* latest instant a Date holds (8.64e15)
FarTime(k) == [present |-> TRUE, ms |-> k, exp10 |-> 15]

FarTimes == {FarTime(1), FarTime(8)}

EncTimes == {NoTime} \cup {Time(ms) : ms \in 0..MaxMs}

\* a few fields of each type, to combine
FieldSamples ==
    { StrField(<<"s">>, <<"a">>), StrField(<<"s">>, <<>>), NumField(<<"n">>, 7),
      BoolField(<<"b">>, TRUE), BoolField(<<"b">>, FALSE) }

OneTag == <<[k |-> <<"a">>, v |-> <<"a">>]>>

Pt(m, tags, fields, ts) ==
    [measurement |-> m, tags |-> tags, fields |-> fields, timestamp |-> ts]

\* the points handed to formatLineProtocol directly: each family varies one
\* part of the point over all its values and keeps the others simple
EncPoints ==
    \* the measurement
    {Pt(m, tags, <<NumField(<<"v">>, 1)>>, ts) :
        m \in Strs(MaxStr), tags \in {<<>>, OneTag}, ts \in {NoTime, Time(2)}}
    \* one tag and two tags
    \cup {Pt(m, <<[k |-> k, v |-> v]>>, <<NumField(<<"v">>, 1)>>, NoTime) :
        m \in {<<>>, <<"m">>}, k \in Strs(1), v \in Strs(1)}
    \cup {Pt(<<"m">>, <<[k |-> k, v |-> <<"a">>], [k |-> <<"b">>, v |-> v]>>,
             <<BoolField(<<"b">>, TRUE)>>, ts) :
        k \in Strs(1), v \in Strs(1), ts \in {NoTime, Time(0)}}
    \* one field of each type, and the field key
    \cup {Pt(<<"m">>, <<>>, <<StrField(<<"s">>, x)>>, ts) :
        x \in Strs(MaxStr), ts \in {NoTime, Time(1)}}
    \cup {Pt(<<"m">>, <<>>, <<NumField(<<"n">>, n)>>, NoTime) : n \in (-MaxNum)..MaxNum}
    \cup {Pt(<<"m">>, tags, <<NumField(k, 1)>>, NoTime) :
        k \in Strs(MaxStr), tags \in {<<>>, OneTag}}
    \* no field, two fields
    \cup {Pt(m, tags, <<>>, ts) :
        m \in Strs(1), tags \in {<<>>, OneTag}, ts \in {NoTime, Time(2)}}
    \cup {Pt(<<"m">>, tags, <<f, g>>, ts) :
        f \in FieldSamples, g \in FieldSamples, tags \in {<<>>, OneTag},
        ts \in {NoTime, Time(3)}}
    \* the timestamp after a last field of each type
    \cup {Pt(m, <<>>, <<f>>, ts) :
        m \in {<<>>, <<"m">>}, f \in FieldSamples, ts \in EncTimes}
    \cup {Pt(<<"m">>, <<>>, <<NumField(<<"v">>, 1)>>, ts) : ts \in FarTimes}

\* this.formatLineProtocol(point) for each input of writePoint: whether it
\* throws, and the line it returns otherwise
encoded ==
    [point \in Points |->
        [throws |-> formatThrows(point),
         line |-> IF formatThrows(point) THEN <<>> ELSE formatLineProtocol(point)]]


\* ------------------------------------------------------------------- state
VARIABLES
    options,         \* this.options (batchSize), fixed by the constructor
    buffer,          \* this.buffer: sequence of [id, line]
    mutexLocked,     \* this.bufferMutex: TRUE while some flush owns it
    tasks,           \* flush() invocations that have not resolved, oldest first:
                     \* [origin: "timer", "threshold", "manual" or "shutdown",
                     \*  pc: "waiting", "acquired" or "sending", dataToSend,
                     \*  sends: the calls of this.send it has made (history)]
    timerArmed,      \* the setInterval timer has not been cleared
    shutdownPc,      \* "idle", "awaiting" (inside await this.flush()), "returned"
    lastWrite,       \* history: how the latest writePoint call ended
    accepted,        \* history: every line pushed by writePoint, in call order
    delivered,       \* history: snapshots whose send succeeded, in completion order
    lastFailed,      \* history: snapshot and drain mark of the latest resolved send
                     \* when it failed, NoFailure when it succeeded
    drainMark,       \* history: Len(accepted) at the latest drain
    shutdownMark,    \* history: Len(accepted) when shutdown was called
    wroteAfterShutdown,  \* history: writePoint was called after shutdown
    failedAfterShutdown, \* history: a send failed after shutdown was called
    lastFlush,       \* history: origin and settlement of the latest resolved flush
    formatted,       \* history: the direct calls of formatLineProtocol made so
                     \* far, as [point, throws, line]
    response,        \* history: what fetch gave the send or the query that
                     \* resolved in the latest step, NoResponse when that step
                     \* resolved none
    query            \* the latest query() call of the application: "idle" (none
                     \* yet), "fetching", "returned" or "threw"

vars == <<options, buffer, mutexLocked, tasks, timerArmed, shutdownPc,
          lastWrite, accepted, delivered, lastFailed, drainMark, shutdownMark,
          wroteAfterShutdown, failedAfterShutdown, lastFlush, formatted,
          response, query>>

history == <<lastWrite, accepted, delivered, lastFailed, drainMark,
             shutdownMark, wroteAfterShutdown, failedAfterShutdown, lastFlush,
             formatted>>

\* the state of the client proper, without the history of the model
client == <<options, buffer, mutexLocked, tasks, timerArmed, shutdownPc>>

NoResponse == [kind |-> "none", status |-> 0]

NoFlush == [origin |-> "none", settled |-> "none"]

NoFailure == [data |-> <<>>, mark |-> 0]

\* constructor: empty buffer, free mutex, timer armed
Init ==
    /\ options \in [batchSize : BatchSizes]
    /\ buffer = <<>>
    /\ mutexLocked = FALSE
    /\ tasks = <<>>
    /\ timerArmed = TRUE
    /\ shutdownPc = "idle"
    /\ lastWrite = "none"
    /\ accepted = <<>>
    /\ delivered = <<>>
    /\ lastFailed = NoFailure
    /\ drainMark = 0
    /\ shutdownMark = 0
    /\ wroteAfterShutdown = FALSE
    /\ failedAfterShutdown = FALSE
    /\ lastFlush = NoFlush
    /\ formatted = {}
    /\ response = NoResponse
    /\ query = "idle"

\* ------------------------------------------------------------- async mutex
\* Mutex.acquire as seen by a caller: the lock is handed over at once when it
\* is free, otherwise the caller is queued behind the earlier ones
acquireNoWait(locked) == "acquired"

acquire(locked) == IF locked THEN "waiting" ELSE "acquired"

\* index of the oldest waiting task, 0 when none waits
firstWaiting(ts) ==
    IF \E i \in 1..Len(ts) : ts[i].pc = "waiting"
    THEN CHOOSE i \in 1..Len(ts) :
            /\ ts[i].pc = "waiting"
            /\ \A j \in 1..(i - 1) : ts[j].pc # "waiting"
    ELSE 0

removeAt(ts, i) == SubSeq(ts, 1, i - 1) \o SubSeq(ts, i + 1, Len(ts))

releaseLeaks(ts, i) == [tasks |-> removeAt(ts, i), locked |-> TRUE]

\* Mutex.release in the finally of runExclusive: the task is done, and the
\* lock goes to the oldest waiter, or becomes free
release(ts, i) ==
    LET rest == removeAt(ts, i)
        w == firstWaiting(rest)
    IN IF w = 0 THEN [tasks |-> rest, locked |-> FALSE]
       ELSE [tasks |-> [rest EXCEPT ![w].pc = "acquired"], locked |-> TRUE]

\* ------------------------------------------------------------------- flush
flushCallDrains(origin) ==
    /\ tasks' = Append(tasks, [origin |-> origin, pc |-> "sending",
                               dataToSend |-> buffer, sends |-> 1])
    /\ mutexLocked' = TRUE

\* this.flush() up to its first suspension: the invocation joins the mutex
flushCall(origin) ==
    /\ tasks' = Append(tasks, [origin |-> origin, pc |-> acquire(mutexLocked),
                               dataToSend |-> <<>>, sends |-> 0])
    /\ mutexLocked' = TRUE

spliceKeeps(buf) == [removed |-> buf, rest |-> buf]

\* this.buffer.splice(0): everything is removed and returned
splice0(buf) == [removed |-> buf, rest |-> <<>>]

unshiftAtTail(buf, items) == buf \o items

unshiftNothing(buf, items) == buf

\* this.buffer.unshift(...dataToSend)
unshift(buf, items) == items \o buf

resolveTaskEarly(i) ==
    LET r == release(tasks, i) IN
    /\ tasks' = r.tasks
    /\ mutexLocked' = r.locked
    /\ shutdownPc' = IF shutdownPc = "awaiting" THEN "returned" ELSE shutdownPc

\* the resolution of task i: the mutex is released, and shutdown() returns
\* when the flush it awaits resolves
resolveTask(i) ==
    LET r == release(tasks, i) IN
    /\ tasks' = r.tasks
    /\ mutexLocked' = r.locked
    /\ shutdownPc' = IF tasks[i].origin = "shutdown" THEN "returned" ELSE shutdownPc

bufferEmptyIgnored(buf) == FALSE

\* if (this.buffer.length === 0) return
bufferEmpty(buf) == Len(buf) = 0

flushSettlesRethrown(sendOk) == IF sendOk THEN "fulfilled" ELSE "rejected"

\* how the promise of flush() settles: the catch block keeps a failed send
\* from rejecting the callback of runExclusive
flushSettles(sendOk) == "fulfilled"

\* the callback of runExclusive up to await this.send(dataToSend)
FlushCallback(i) ==
    /\ tasks[i].pc = "acquired"
    /\ IF bufferEmpty(buffer)
       THEN /\ resolveTask(i)
            /\ lastFlush' = [origin |-> tasks[i].origin, settled |-> "fulfilled"]
            /\ UNCHANGED <<buffer, drainMark>>
       ELSE LET d == splice0(buffer) IN
            /\ buffer' = d.rest
            /\ tasks' = [tasks EXCEPT ![i].pc = "sending", ![i].dataToSend = d.removed,
                                      ![i].sends = @ + 1]
            /\ drainMark' = Len(accepted)
            /\ UNCHANGED <<mutexLocked, shutdownPc, lastFlush>>
    /\ response' = NoResponse
    /\ UNCHANGED query
    /\ UNCHANGED <<options, timerArmed, lastWrite, accepted, delivered,
                   lastFailed, shutdownMark, wroteAfterShutdown, failedAfterShutdown,
                   formatted>>

\* the statuses a server answers with in this model: the success status,
\* another 2xx status, and an error status
Statuses == {200, 204}

\* what await fetch(...) gives: a response with a status, or a rejection
\* (the server was not reached)
Responses ==
    [kind : {"status"}, status : Statuses] \cup {[kind |-> "exception", status |-> 0]}

sendOutcomeAnyOk(r) ==
    IF r.kind = "status" /\ r.status \in 200..299 THEN "resolved" ELSE "rejected"

\* send: a rejection of fetch propagates, and
\* if (response.status !== 204) throw
sendOutcome(r) ==
    IF r.kind = "status" /\ r.status = 204 THEN "resolved" ELSE "rejected"

SendOkRequeues(i) ==
    /\ tasks[i].pc = "sending"
    /\ delivered' = Append(delivered, tasks[i].dataToSend)
    /\ buffer' = unshift(buffer, tasks[i].dataToSend)
    /\ lastFailed' = NoFailure
    /\ lastFlush' = [origin |-> tasks[i].origin, settled |-> flushSettles(TRUE)]
    /\ resolveTask(i)
    /\ UNCHANGED <<options, timerArmed, lastWrite, accepted,
                   drainMark, shutdownMark, wroteAfterShutdown,
                   failedAfterShutdown, formatted>>

\* send resolved: the server answered 204
SendOk(i) ==
    /\ tasks[i].pc = "sending"
    /\ delivered' = Append(delivered, tasks[i].dataToSend)
    /\ lastFailed' = NoFailure
    /\ lastFlush' = [origin |-> tasks[i].origin, settled |-> flushSettles(TRUE)]
    /\ resolveTask(i)
    /\ UNCHANGED <<options, buffer, timerArmed, lastWrite, accepted,
                   drainMark, shutdownMark, wroteAfterShutdown,
                   failedAfterShutdown, formatted>>

SendFailResends(i) ==
    /\ tasks[i].pc = "sending"
    /\ tasks' = [tasks EXCEPT ![i].sends = @ + 1]
    /\ lastFailed' = [data |-> tasks[i].dataToSend, mark |-> drainMark]
    /\ failedAfterShutdown' = (failedAfterShutdown \/ shutdownPc # "idle")
    /\ UNCHANGED <<options, buffer, mutexLocked, timerArmed, shutdownPc, lastWrite,
                   accepted, delivered, drainMark, shutdownMark, wroteAfterShutdown,
                   lastFlush, formatted>>

\* send rejected (another status, or fetch failed): the catch block
SendFail(i) ==
    /\ tasks[i].pc = "sending"
    /\ buffer' = unshift(buffer, tasks[i].dataToSend)
    /\ lastFailed' = [data |-> tasks[i].dataToSend, mark |-> drainMark]
    /\ failedAfterShutdown' = (failedAfterShutdown \/ shutdownPc # "idle")
    /\ lastFlush' = [origin |-> tasks[i].origin, settled |-> flushSettles(FALSE)]
    /\ resolveTask(i)
    /\ UNCHANGED <<options, timerArmed, lastWrite, accepted, delivered,
                   drainMark, shutdownMark, wroteAfterShutdown, formatted>>

\* ------------------------------------------------------------- entry points
thresholdReachedStrict(len, batchSize) == len > batchSize

\* if (this.buffer.length >= this.options.batchSize)
thresholdReached(len, batchSize) == len >= batchSize

writeOutcomeUncaught(point) == IF encoded[point].throws THEN "threw" ELSE "accepted"

\* how writePoint ends: the try/catch turns a format error into a log entry
writeOutcome(point) == IF encoded[point].throws THEN "dropped" ELSE "accepted"

clearIntervalSkipped(armed) == armed

\* clearInterval(this.timerId)
clearInterval(armed) == FALSE

pushAtFront(buf, entry) == <<entry>> \o buf

\* this.buffer.push(line)
push(buf, entry) == Append(buf, entry)

writePoint(point) ==
    /\ Len(accepted) < MaxWrites
    /\ wroteAfterShutdown' = (wroteAfterShutdown \/ shutdownPc # "idle")
    /\ lastWrite' = writeOutcome(point)
    /\ IF encoded[point].throws
       THEN /\ UNCHANGED <<buffer, accepted, tasks, mutexLocked>>
       ELSE LET entry == [id |-> Len(accepted) + 1, line |-> encoded[point].line] IN
            /\ buffer' = push(buffer, entry)
            /\ accepted' = Append(accepted, entry)
            /\ IF thresholdReached(Len(buffer'), options.batchSize)
               THEN flushCall("threshold")
               ELSE UNCHANGED <<tasks, mutexLocked>>
    /\ response' = NoResponse
    /\ UNCHANGED query
    /\ UNCHANGED <<options, timerArmed, shutdownPc, delivered, lastFailed,
                   drainMark, shutdownMark, failedAfterShutdown, lastFlush,
                   formatted>>

WritePoint == \E point \in Points : writePoint(point)

\* the setInterval callback
TimerTick ==
    /\ timerArmed
    /\ Len(tasks) < MaxPending
    /\ flushCall("timer")
    /\ response' = NoResponse
    /\ UNCHANGED query
    /\ UNCHANGED <<options, buffer, timerArmed, shutdownPc>>
    /\ UNCHANGED history

\* flush() called by the application
ManualFlush ==
    /\ Len(tasks) < MaxPending
    /\ flushCall("manual")
    /\ response' = NoResponse
    /\ UNCHANGED query
    /\ UNCHANGED <<options, buffer, timerArmed, shutdownPc>>
    /\ UNCHANGED history

\* shutdown() up to await this.flush(); the application calls it once
Shutdown ==
    /\ shutdownPc = "idle"
    /\ timerArmed' = clearInterval(timerArmed)
    /\ flushCall("shutdown")
    /\ shutdownPc' = "awaiting"
    /\ shutdownMark' = Len(accepted)
    /\ response' = NoResponse
    /\ UNCHANGED query
    /\ UNCHANGED <<options, buffer, lastWrite, accepted, delivered,
                   lastFailed, drainMark, wroteAfterShutdown, failedAfterShutdown,
                   lastFlush, formatted>>

\* formatLineProtocol called on its own, as the test class does through
\* testFormatLine
formatLineBuffered(point) ==
    /\ formatted' = formatted \cup
          {[point |-> point, throws |-> formatThrows(point),
            line |-> IF formatThrows(point) THEN <<>> ELSE formatLineProtocol(point)]}
    /\ buffer' = IF formatThrows(point) THEN buffer
                 ELSE Append(buffer, [id |-> 0, line |-> formatLineProtocol(point)])
    /\ response' = NoResponse
    /\ UNCHANGED query
    /\ UNCHANGED <<options, mutexLocked, tasks, timerArmed, shutdownPc,
                   lastWrite, accepted, delivered, lastFailed, drainMark,
                   shutdownMark, wroteAfterShutdown, failedAfterShutdown, lastFlush>>

\* this.formatLineProtocol(point) called on its own, the result noted
formatLine(point) ==
    /\ formatted' = formatted \cup
          {[point |-> point, throws |-> formatThrows(point),
            line |-> IF formatThrows(point) THEN <<>> ELSE formatLineProtocol(point)]}
    /\ response' = NoResponse
    /\ UNCHANGED query
    /\ UNCHANGED <<options, buffer, mutexLocked, tasks, timerArmed, shutdownPc,
                   lastWrite, accepted, delivered, lastFailed, drainMark,
                   shutdownMark, wroteAfterShutdown, failedAfterShutdown, lastFlush>>

\* one direct call on a fresh client, for any point
EncFormat == formatted = {} /\ \E point \in EncPoints : formatLine(point)

\* direct calls in any state of a running client, for the points with at
\* least one field
TestFormatLine ==
    \E point \in {p \in Points : Len(p.fields) >= 1} : formatLine(point)

RunCallback == \E i \in 1..Len(tasks) : FlushCallback(i)

\* fetch resolved or rejected, and send classified what it gave
SendSucceeds ==
    \E i \in 1..Len(tasks) : \E r \in Responses :
        /\ sendOutcome(r) = "resolved"
        /\ response' = r
        /\ SendOk(i)
        /\ UNCHANGED query

SendFails ==
    \E i \in 1..Len(tasks) : \E r \in Responses :
        /\ sendOutcome(r) = "rejected"
        /\ response' = r
        /\ SendFail(i)
        /\ UNCHANGED query

\* what await fetch(...) gives a query: a status and a body that parses as
\* JSON or does not, or a rejection
QueryResponses ==
    [kind : {"status"}, status : {200, 500}, json : BOOLEAN]
    \cup {[kind |-> "exception", status |-> 0, json |-> FALSE]}

queryOutcomeRetried(r) ==
    IF r.kind = "status" /\ r.status \in 200..299
    THEN (IF r.json THEN "returned" ELSE "threw")
    ELSE "fetching"

\* query after await fetch(...): a rejection of fetch propagates,
\* if (!response.ok) throw, and response.json() rejects on a body that is not
\* JSON
queryOutcome(r) ==
    IF r.kind = "status" /\ r.status \in 200..299
    THEN (IF r.json THEN "returned" ELSE "threw")
    ELSE "threw"

\* query(query) up to await fetch(...); the application has one query
\* outstanding at a time
QueryCall ==
    /\ query # "fetching"
    /\ query' = "fetching"
    /\ response' = NoResponse
    /\ UNCHANGED client
    /\ UNCHANGED history

\* the rest of query(query)
QueryResolves ==
    /\ query = "fetching"
    /\ \E r \in QueryResponses :
          /\ query' = queryOutcome(r)
          /\ response' = r
    /\ UNCHANGED client
    /\ UNCHANGED history

Next ==
    \/ WritePoint
    \/ TimerTick
    \/ ManualFlush
    \/ Shutdown
    \/ RunCallback
    \/ SendSucceeds
    \/ SendFails

Spec == Init /\ [][Next]_vars

\* the client while shutdown is not called
NextRunning ==
    \/ WritePoint
    \/ TimerTick
    \/ ManualFlush
    \/ RunCallback
    \/ SendSucceeds
    \/ SendFails

\* the event loop runs every ready callback, the interval timer keeps firing,
\* every send resolves, and sends do not fail forever
LiveSpec ==
    /\ Init
    /\ [][NextRunning]_vars
    /\ WF_vars(TimerTick)
    /\ WF_vars(RunCallback)
    /\ WF_vars(SendSucceeds \/ SendFails)
    /\ SF_vars(SendSucceeds)

\* the encoder alone
EncNext == EncFormat

EncSpec == Init /\ [][EncNext]_vars

\* the client, with direct calls of the encoder at any time
FormatNext ==
    \/ WritePoint
    \/ TimerTick
    \/ ManualFlush
    \/ Shutdown
    \/ RunCallback
    \/ SendSucceeds
    \/ SendFails
    \/ TestFormatLine

FormatSpec == Init /\ [][FormatNext]_vars

\* the client whose event loop runs every ready callback and whose sends all
\* resolve, one way or the other; the timer and the application (which
\* writes and shuts down) act or not
ResolveNext ==
    \/ WritePoint
    \/ TimerTick
    \/ Shutdown
    \/ RunCallback
    \/ SendSucceeds
    \/ SendFails

ResolveSpec ==
    /\ Init
    /\ [][ResolveNext]_vars
    /\ WF_vars(RunCallback)
    /\ WF_vars(SendSucceeds \/ SendFails)

\* the line the server never accepts: the last but one of the lines a
\* behaviour accepts, so that lines come before and after it
PoisonId == MaxWrites - 1

Poisoned(data) == \E k \in 1..Len(data) : data[k].id = PoisonId

\* a send is answered 204 only when its body does not hold the poison line
SendSucceedsUnlessPoisoned ==
    \E i \in 1..Len(tasks) : \E r \in Responses :
        /\ ~Poisoned(tasks[i].dataToSend)
        /\ sendOutcome(r) = "resolved"
        /\ response' = r
        /\ SendOk(i)
        /\ UNCHANGED query

\* the client in front of a server that rejects every body with the poison
\* line
PoisonNext ==
    \/ WritePoint
    \/ TimerTick
    \/ ManualFlush
    \/ Shutdown
    \/ RunCallback
    \/ SendSucceedsUnlessPoisoned
    \/ SendFails

PoisonSpec == Init /\ [][PoisonNext]_vars

\* the client with its writes, its timer, its threshold flushes and its
\* shutdown, and queries at any time
QueryNext ==
    \/ WritePoint
    \/ TimerTick
    \/ Shutdown
    \/ RunCallback
    \/ SendSucceeds
    \/ SendFails
    \/ QueryCall
    \/ QueryResolves

QuerySpec == Init /\ [][QueryNext]_vars

\* --------------------------------------------------------------- vocabulary
RECURSIVE Flatten(_)
Flatten(seqs) == IF seqs = <<>> THEN <<>> ELSE Head(seqs) \o Flatten(Tail(seqs))

\* the snapshots of the flushes whose send has not resolved, oldest flush first
InFlight == Flatten([i \in 1..Len(tasks) |-> tasks[i].dataToSend])

Holders(ts) == {i \in 1..Len(ts) : ts[i].pc \in {"acquired", "sending"}}
Sending(ts) == {i \in 1..Len(ts) : ts[i].pc = "sending"}
Started(ts, origin) == Cardinality({i \in 1..Len(ts) : ts[i].origin = origin})

\* number of places of seq that hold the entry e
Count(seq, e) == Cardinality({i \in 1..Len(seq) : seq[i] = e})

Range(seq) == {seq[i] : i \in 1..Len(seq)}

\* C1: after a failed send, the snapshot of the next drain is the failed
\* snapshot, in its order, followed by the lines accepted between the failed
\* drain and that next drain, in acceptance order.
RetryOrdering ==
    \A i \in Sending(tasks) :
        lastFailed # NoFailure =>
            tasks[i].dataToSend =
                lastFailed.data \o SubSeq(accepted, lastFailed.mark + 1, drainMark)

\* a retry is in flight that carries the failed lines and two lines accepted
\* after the failed drain
RetryOrderingWitness ==
    /\ Sending(tasks) # {}
    /\ lastFailed # NoFailure
    /\ drainMark >= lastFailed.mark + 2
    /\ Len(InFlight) > Len(lastFailed.data) + 1

\* C2: at most one flush owns the mutex (drain and send) at any time; it is
\* the oldest unresolved invocation, so every flush invoked while it runs
\* drains only after it has resolved; the waiting ones hold no snapshot, the
\* mutex is locked exactly while a flush owns it, and an owner that finds the
\* buffer empty resolves without a snapshot.
FlushesSerialize ==
    [][ /\ Cardinality(Holders(tasks')) <= 1
        /\ Holders(tasks') \subseteq {1}
        /\ mutexLocked' = (Holders(tasks') # {})
        /\ \A i \in 1..Len(tasks') :
              tasks'[i].pc # "sending" => tasks'[i].dataToSend = <<>>
        /\ (Len(tasks) > 0 /\ Len(tasks') < Len(tasks) /\ tasks[1].pc = "acquired")
              => (buffer = <<>> /\ buffer' = <<>> /\ delivered' = delivered) ]_vars

\* a send is in flight while two later invocations of different origins wait
FlushesSerializeWitness ==
    /\ Len(tasks) >= 3
    /\ tasks[1].pc = "sending"
    /\ tasks[2].pc = "waiting"
    /\ tasks[3].pc = "waiting"
    /\ tasks[2].origin # tasks[3].origin

\* C3: every accepted line is in exactly one of the buffer, the in-flight
\* snapshot and the delivered lines, and nothing else is in any of them.
NoLossNoDuplication ==
    LET places == buffer \o InFlight \o Flatten(delivered) IN
    /\ \A k \in 1..Len(accepted) : Count(places, accepted[k]) = 1
    /\ Range(places) \subseteq Range(accepted)

\* lines in all three places at once, after a failed send was put back
NoLossNoDuplicationWitness ==
    /\ buffer # <<>>
    /\ InFlight # <<>>
    /\ delivered # <<>>
    /\ lastFailed # NoFailure

\* C4: delivered snapshots in completion order, then the in-flight snapshot,
\* then the buffer, are together the accepted lines in acceptance order.
WriteOrderPreserved ==
    Flatten(delivered) \o InFlight \o buffer = accepted

\* a send failed and was put back in front of a line written during the
\* send, and a later send has delivered lines
WriteOrderPreservedWitness ==
    /\ Len(delivered) >= 1
    /\ lastFailed # NoFailure
    /\ Len(buffer) > Len(lastFailed.data)
    /\ SubSeq(buffer, 1, Len(lastFailed.data)) = lastFailed.data

\* C5: no accepted line is in two delivered snapshots; when a send fails the
\* whole snapshot is back at the front of the buffer; and lines leave the
\* buffer only by a drain that takes all of them into its snapshot.
NoDuplicateDelivery ==
    [][ /\ \A k \in 1..Len(accepted') : Count(Flatten(delivered'), accepted'[k]) <= 1
        /\ (Len(InFlight') < Len(InFlight) /\ delivered' = delivered)
              => buffer' = InFlight \o buffer
        /\ (\E e \in Range(buffer) : e \notin Range(buffer'))
              => (buffer' = <<>> /\ InFlight' = InFlight \o buffer) ]_vars

\* a failed snapshot is back in the buffer while the next flush owns the
\* mutex and has not drained yet, and an earlier snapshot was delivered
NoDuplicateDeliveryWitness ==
    /\ delivered # <<>>
    /\ lastFailed # NoFailure
    /\ buffer = lastFailed.data
    /\ Len(tasks) >= 1
    /\ tasks[1].pc = "acquired"

\* C6: with the timer firing, every send resolving and sends succeeding again
\* and again, every accepted line is eventually in a delivered snapshot.
AtLeastOnceDelivery ==
    \A k \in 1..MaxWrites :
        (\E e \in Range(accepted) : e.id = k)
            ~> (\E e \in Range(Flatten(delivered)) : e.id = k)

\* a line was delivered by a retry: its first send had failed
AtLeastOnceDeliveryWitness ==
    /\ Len(delivered) >= 2
    /\ Len(Flatten(delivered)) = 3
    /\ drainMark > Len(delivered[1])
    /\ shutdownPc = "idle"

\* C7: a writePoint that appends a line initiates a flush exactly when the
\* buffer length after the append is at least batchSize, nothing else starts
\* a threshold flush; and while the buffer
\* has never been drained, a threshold flush has been initiated exactly when
\* batchSize lines have been accepted.
EnqueueThreshold ==
    [][ /\ (Len(accepted') = Len(accepted) + 1)
              => /\ Started(tasks', "threshold") - Started(tasks, "threshold")
                        = (IF Len(buffer') >= options.batchSize THEN 1 ELSE 0)
                 /\ Len(tasks') - Len(tasks)
                        = (IF Len(buffer') >= options.batchSize THEN 1 ELSE 0)
        /\ (Started(tasks', "threshold") > Started(tasks, "threshold"))
              => (Len(accepted') = Len(accepted) + 1)
        /\ (drainMark' = 0)
              => ((Started(tasks', "threshold") > 0)
                     <=> (Len(accepted') >= options.batchSize)) ]_vars

\* never drained, batchSize larger than 1: the accepted line that filled the
\* buffer to batchSize has initiated a flush
EnqueueThresholdWitness ==
    /\ options.batchSize > 1
    /\ drainMark = 0
    /\ Len(buffer) = options.batchSize
    /\ Started(tasks, "threshold") = 1

\* C8: when shutdown has returned, no writePoint was called after the
\* shutdown call and no send has failed since, the buffer is empty and every
\* accepted line is delivered; and once shutdown has been called the timer
\* starts no further flush.
ShutdownDrains ==
    [][ /\ (shutdownPc' = "returned" /\ ~wroteAfterShutdown' /\ ~failedAfterShutdown')
              => (buffer' = <<>> /\ InFlight' = <<>> /\ Flatten(delivered') = accepted')
        /\ (shutdownPc # "idle")
              => Started(tasks', "timer") <= Started(tasks, "timer") ]_vars

\* shutdown has returned with both lines accepted before the call delivered
ShutdownDrainsWitness ==
    /\ shutdownPc = "returned"
    /\ ~wroteAfterShutdown
    /\ ~failedAfterShutdown
    /\ shutdownMark = 2
    /\ Len(accepted) = 2
    /\ buffer = <<>>

WritePointNeverBlocks ==
    /\ lastWrite \in {"none", "accepted", "dropped"}
    /\ Len(accepted) < MaxWrites => \A point \in Points : ENABLED writePoint(point)

\* a send is in flight, another flush waits for the mutex, the latest
\* writePoint dropped an unencodable point, and writePoint can be called again
WritePointNeverBlocksWitness ==
    /\ mutexLocked
    /\ Sending(tasks) # {}
    /\ \E i \in 1..Len(tasks) : tasks[i].pc = "waiting"
    /\ lastWrite = "dropped"
    /\ Len(accepted) < MaxWrites

\* ------------------------------------------------------- later vocabulary
IsPrefix(a, b) == Len(a) <= Len(b) /\ SubSeq(b, 1, Len(a)) = a

IsSuffix(a, b) == Len(a) <= Len(b) /\ SubSeq(b, Len(b) - Len(a) + 1, Len(b)) = a

\* a writePoint call that ended in the catch block
DroppedWrite ==
    /\ lastWrite' = "dropped"
    /\ <<lastWrite, wroteAfterShutdown>> # <<lastWrite', wroteAfterShutdown'>>

\* C11: encoding a point without fields fails; the writePoint call that
\* drops it leaves the buffer, the flushes and the mutex as they were, even
\* when the buffer is at the threshold; and every line in the buffer or in a
\* snapshot is the line of a point that has fields.
UnencodableDropped ==
    [][ /\ \A point \in Points : (point.fields = <<>>) => encoded[point].throws
        /\ DroppedWrite
              => UNCHANGED <<buffer, tasks, mutexLocked, accepted, delivered, timerArmed>>
        /\ \A e \in Range(buffer' \o InFlight') :
              \E point \in Points :
                  /\ point.fields # <<>>
                  /\ e.line = formatLineProtocol(point) ]_vars

\* a point was dropped while the buffer holds batchSize lines put back by a
\* failed send, and no flush is pending
UnencodableDroppedWitness ==
    /\ lastWrite = "dropped"
    /\ lastFailed # NoFailure
    /\ Len(buffer) >= options.batchSize
    /\ tasks = <<>>

\* C12: flush() never settles as rejected, whether its send succeeded or
\* failed; the timer stays armed until shutdown is called, whatever the sends
\* did, and while it is armed its callback can invoke flush again.
FailedSendContained ==
    /\ lastFlush.settled \in {"none", "fulfilled"}
    /\ (shutdownPc = "idle") => timerArmed
    /\ (timerArmed /\ Len(tasks) < MaxPending) => ENABLED TimerTick

\* the send of a timer-driven flush has failed and its snapshot is back in
\* the buffer; the timer is armed and can fire
FailedSendContainedWitness ==
    /\ lastFlush = [origin |-> "timer", settled |-> "fulfilled"]
    /\ lastFailed # NoFailure
    /\ buffer = lastFailed.data
    /\ tasks = <<>>
    /\ timerArmed
    /\ ENABLED TimerTick

Acquired(ts) == {i \in 1..Len(ts) : ts[i].pc = "acquired"}

\* C13: a flush that owns the mutex and finds the buffer empty starts no
\* send and resolves leaving buffer, deliveries and drain history as they
\* were; no send ever carries an empty snapshot.
EmptyFlushNoOp ==
    [][ /\ \A i \in Sending(tasks') : tasks'[i].dataToSend # <<>>
        /\ (Acquired(tasks) # {} /\ buffer = <<>>) => Sending(tasks') = {}
        /\ (Acquired(tasks) # {} /\ buffer = <<>> /\ Len(tasks') < Len(tasks))
              => /\ buffer' = <<>>
                 /\ UNCHANGED <<delivered, lastFailed, drainMark, accepted>> ]_vars

\* a manual flush has resolved as a no-op on a client that never drained,
\* and the next flush owns the mutex with the buffer still empty
EmptyFlushNoOpWitness ==
    /\ lastFlush.settled = "fulfilled"
    /\ lastFlush.origin = "manual"
    /\ drainMark = 0
    /\ buffer = <<>>
    /\ Len(tasks) = 1
    /\ tasks[1].pc = "acquired"

\* C14: the drain puts exactly the buffer into the snapshot and leaves the
\* buffer empty; a writePoint appends its line to the buffer and leaves the
\* in-flight snapshot as it is; and the snapshot does not change while its
\* send is in flight.
SnapshotIsolated ==
    [][ /\ (Sending(tasks) = {} /\ Sending(tasks') # {})
              => (buffer # <<>> /\ InFlight' = buffer /\ buffer' = <<>>)
        /\ (accepted' # accepted)
              => /\ InFlight' = InFlight
                 /\ buffer' = Append(buffer, accepted'[Len(accepted')])
        /\ (Sending(tasks) # {} /\ Sending(tasks') # {}) => InFlight' = InFlight ]_vars

\* two lines were accepted while the send of the first line is in flight
SnapshotIsolatedWitness ==
    /\ Sending(tasks) # {}
    /\ Len(InFlight) = 1
    /\ Len(buffer) = 2
    /\ drainMark = 1
    /\ Len(accepted) = 3

\* C15: when a send succeeds its snapshot is delivered and nothing is put
\* back: the buffer is untouched by that step and holds exactly the lines
\* accepted since the drain, in acceptance order.
SuccessDiscards ==
    [][ (delivered' # delivered)
            => /\ delivered' = Append(delivered, InFlight)
               /\ InFlight' = <<>>
               /\ buffer' = buffer
               /\ buffer' = SubSeq(accepted, drainMark + 1, Len(accepted))
               /\ Range(buffer') \cap Range(InFlight) = {} ]_vars

\* a send has succeeded and the flush has resolved; the buffer holds the two
\* lines written during the send
SuccessDiscardsWitness ==
    /\ Len(delivered) = 1
    /\ lastFailed = NoFailure
    /\ Sending(tasks) = {}
    /\ drainMark = 1
    /\ Len(buffer) = 2
    /\ lastFlush.settled = "fulfilled"

\* ------------------------------------------------------ encoder vocabulary
\* s with a backslash put before each of its characters that is in special
Escaped(s, special) ==
    Flatten([i \in 1..Len(s) |->
                IF s[i] \in special THEN <<"\\", s[i]>> ELSE <<s[i]>>])

NameChars == {",", "=", " "}

\* the tags as key=value joined by commas, keys and values escaped
TagsText(point) ==
    Flatten([i \in 1..Len(point.tags) |->
                (IF i > 1 THEN <<",">> ELSE <<>>)
                \o Escaped(point.tags[i].k, NameChars) \o <<"=">>
                \o Escaped(point.tags[i].v, NameChars)])

\* the line up to and including the space before the fields, when the
\* characters in special are the ones escaped in the measurement
NamesText(point, special) ==
    Escaped(point.measurement, special)
    \o (IF point.tags # <<>> THEN <<",">> \o TagsText(point) ELSE <<>>)
    \o <<" ">>

\* C16 as stated: the line begins with the measurement and the tags, each
\* comma, equals sign and space in them preceded by a backslash and nothing
\* else changed (white space at the very start of the line, which the final
\* trim removes, is left out of the comparison).
NamesEscapedAsClaimed ==
    \A r \in formatted :
        ~r.throws => IsPrefix(trimStart(NamesText(r.point, NameChars)), r.line)

\* C16, amended: as above, but in the measurement only comma and space are
\* escaped; an equals sign of the measurement is copied as it is.
NamesEscaped ==
    \A r \in formatted :
        ~r.throws => IsPrefix(trimStart(NamesText(r.point, {",", " "})), r.line)

\* a measurement with an equals sign and a comma was encoded, with a tag
NamesEscapedWitness ==
    \E r \in formatted :
        /\ ~r.throws
        /\ r.point.measurement = <<"=", ",">>
        /\ r.point.tags # <<>>
        /\ IsPrefix(<<"=", "\\", ",", ",">>, r.line)

\* the decimal digits of n, with a minus sign when n is negative
Decimal(n) ==
    LET a == IF n < 0 THEN -n ELSE n
        nd == CHOOSE d \in 1..9 : a < 10^d /\ (d = 1 \/ a >= 10^(d - 1))
    IN (IF n < 0 THEN <<"-">> ELSE <<>>)
       \o [i \in 1..nd |-> Digit((a \div 10^(nd - i)) % 10)]

\* a string value between double quotes, each of its backslashes doubled and
\* each of its double quotes preceded by a backslash
QuotedText(s) ==
    <<"\"">>
    \o Flatten([i \in 1..Len(s) |->
                   IF s[i] = "\\" THEN <<"\\", "\\">>
                   ELSE IF s[i] = "\"" THEN <<"\\", "\"">>
                   ELSE <<s[i]>>])
    \o <<"\"">>

ValueText(f) ==
    CASE f.type = "string"  -> QuotedText(f.s)
      [] f.type = "boolean" -> IF f.b THEN <<"t">> ELSE <<"f">>
      [] f.type = "number"  -> Decimal(f.n)

\* the fields as key=value joined by commas, in the point's order
FieldsText(point) ==
    Flatten([i \in 1..Len(point.fields) |->
                (IF i > 1 THEN <<",">> ELSE <<>>)
                \o Escaped(point.fields[i].k, NameChars) \o <<"=">>
                \o ValueText(point.fields[i])])

\* C17: the line of a point with at least one field and no timestamp is the
\* measurement (escaped as the encoder escapes it), a comma and the tags if
\* there are any, one space, and the fields joined by commas, each value
\* rendered by its type, with no white space at the end.
LineShape ==
    \A r \in formatted :
        Len(r.point.fields) >= 1 /\ ~r.point.timestamp.present =>
            /\ ~r.throws
            /\ r.line = NamesText(r.point, {",", " "}) \o FieldsText(r.point)
            /\ r.line[Len(r.line)] \notin WhiteSpace

\* the nanoseconds of millisecond instant m in decimal: the digits of m and
\* six zeros
Zeros(n) == [i \in 1..n |-> "0"]

\* the nanoseconds of the instant ms * 10^exp10 milliseconds in decimal: the
\* digits of the milliseconds and six zeros
NanoText(t) ==
    IF t.ms = 0 THEN <<"0">> ELSE Decimal(t.ms) \o Zeros(t.exp10) \o Zeros(6)

\* what follows the last field: a space and the nanoseconds, or nothing
TimeText(point) ==
    IF point.timestamp.present
    THEN <<" ">> \o NanoText(point.timestamp) ELSE <<>>

\* what follows field i in the line: the later fields and the timestamp
AfterField(point, i) ==
    Flatten([j \in 1..(Len(point.fields) - i) |->
                <<",">> \o Escaped(point.fields[i + j].k, NameChars) \o <<"=">>
                \o ValueText(point.fields[i + j])])
    \o TimeText(point)

\* C18: every string field value appears in the line between double quotes,
\* each backslash of the value doubled and each double quote of the value
\* preceded by exactly one backslash.
StringFieldEscaped ==
    \A r \in formatted :
        ~r.throws =>
            \A i \in 1..Len(r.point.fields) :
                r.point.fields[i].type = "string" =>
                    IsSuffix(Escaped(r.point.fields[i].k, NameChars) \o <<"=">>
                             \o QuotedText(r.point.fields[i].s)
                             \o AfterField(r.point, i), r.line)

\* a value made of a double quote and a backslash was encoded
StringFieldEscapedWitness ==
    \E r \in formatted :
        /\ ~r.throws
        /\ r.point.fields = <<StrField(<<"s">>, <<"\"", "\\">>)>>
        /\ IsSuffix(<<"=", "\"", "\\", "\"", "\\", "\\", "\"">>, r.line)

\* the last field of the point as the line renders it
LastFieldText(point) ==
    LET f == point.fields[Len(point.fields)]
    IN Escaped(f.k, NameChars) \o <<"=">> \o ValueText(f)

\* C19: the line of a point with a timestamp at millisecond instant m ends
\* with the last field, one space and the decimal integer m * 1,000,000; the
\* line of a point without timestamp ends with the last field.
TimestampRendered ==
    \A r \in formatted :
        ~r.throws =>
            /\ IsSuffix(LastFieldText(r.point) \o TimeText(r.point), r.line)
            /\ r.line[Len(r.line)] \notin WhiteSpace

\* every encoding of a point noted so far gave the same result, and the lines
\* writePoint accepted are the line noted for the point that encodes
SameEncoding ==
    /\ \A r1, r2 \in formatted : r1.point = r2.point => r1 = r2
    /\ \A r \in formatted : \A i \in 1..Len(accepted) :
           ~r.throws => accepted[i].line = r.line

Is204(r) == r.kind = "status" /\ r.status = 204

\* C21: a send succeeds exactly when the server answers 204: then its
\* snapshot is delivered; after any other status and after a transport
\* exception nothing is delivered and the whole snapshot is back at the front
\* of the buffer, with no line missing.
SendClassified ==
    [][/\ response' # NoResponse /\ tasks' # tasks =>
            IF Is204(response')
            THEN /\ delivered' = Append(delivered, InFlight)
                 /\ buffer' = buffer
            ELSE /\ delivered' = delivered
                 /\ buffer' = InFlight \o buffer
                 /\ InFlight # <<>>
       /\ delivered' # delivered => Is204(response')
       /\ response' # NoResponse /\ tasks' # tasks => InFlight' = <<>>]_vars

\* the server answered 200, and the two lines of the snapshot are back at the
\* front of the buffer
SendClassifiedWitness ==
    /\ response = [kind |-> "status", status |-> 200]
    /\ lastFailed # NoFailure
    /\ Len(lastFailed.data) >= 2
    /\ IsPrefix(lastFailed.data, buffer)
    /\ delivered = <<>>

\* the query got no usable answer: fetch rejected, the status is not 2xx, or
\* the body is not JSON
QueryFailed(r) ==
    \/ r.kind # "status"
    \/ r.status < 200
    \/ r.status > 299
    \/ ~r.json

\* C22: a step of a query (its call and its resolution) leaves the buffer,
\* the in-flight snapshot, the mutex, the flush invocations and the timer as
\* they are; both steps can be taken whatever the state of the mutex; and
\* when the query fails the call ends by throwing to its caller, without a
\* second fetch.
QueryOutsideBufferedPath ==
    [][/\ query' # query => client' = client /\ InFlight' = InFlight
       /\ query = "fetching" => ENABLED QueryResolves
       /\ query # "fetching" => ENABLED QueryCall
       /\ query = "fetching" /\ response' # NoResponse /\ tasks' = tasks =>
            query' = IF QueryFailed(response') THEN "threw" ELSE "returned"]_vars

\* a query was answered 500 and threw while a flush was sending and lines
\* were buffered
QueryOutsideBufferedPathWitness ==
    /\ query = "threw"
    /\ response.kind = "status" /\ response.status = 500
    /\ Sending(tasks) # {}
    /\ mutexLocked
    /\ buffer # <<>>

\* C23: while no timer, manual or shutdown flush was invoked and fewer lines
\* than batchSize were accepted, the buffer is the accepted lines in call
\* order, no flush was invoked and no send was started.
BufferedBeforeFlush ==
    (/\ lastFlush = NoFlush
     /\ shutdownPc = "idle"
     /\ \A i \in 1..Len(tasks) : tasks[i].origin = "threshold"
     /\ Len(accepted) < options.batchSize)
    => /\ buffer = accepted
       /\ tasks = <<>>
       /\ ~mutexLocked
       /\ drainMark = 0
       /\ delivered = <<>>
       /\ lastFailed = NoFailure

\* two lines were written to a fresh client whose batchSize is larger, and
\* both are in the buffer
BufferedBeforeFlushWitness ==
    /\ lastFlush = NoFlush
    /\ shutdownPc = "idle"
    /\ tasks = <<>>
    /\ Len(accepted) = 2
    /\ options.batchSize > 2
    /\ Len(buffer) = 2
    /\ buffer[1].id = 1 /\ buffer[2].id = 2

\* C24: a flush invocation has made no send while it waits or has just got
\* the mutex and exactly one while it sends; it ends without a send only when
\* it found the buffer empty, and sends the whole buffer otherwise; a send
\* starts only in a step of the invocation that owns the mutex; and when a
\* send fails the invocation ends, its snapshot back in the buffer and
\* nothing in flight, so that only a later invocation sends it again.
OneSendPerFlush ==
    [][/\ \A i \in 1..Len(tasks') :
            tasks'[i].sends = IF tasks'[i].pc = "sending" THEN 1 ELSE 0
       /\ \A i \in 1..Len(tasks) :
            tasks[i].pc = "acquired" /\ Len(tasks') < Len(tasks) =>
                buffer = <<>> /\ InFlight' = <<>>
       /\ \A i \in 1..Len(tasks) :
            tasks[i].pc = "acquired" /\ buffer # <<>> /\ Len(tasks') = Len(tasks)
            /\ tasks'[i] # tasks[i] =>
                /\ tasks'[i].pc = "sending"
                /\ tasks'[i].dataToSend = buffer
       /\ InFlight' # InFlight /\ InFlight' # <<>> =>
            /\ InFlight = <<>>
            /\ \E i \in 1..Len(tasks) : tasks[i].pc = "acquired"
       /\ \A i \in 1..Len(tasks) :
            tasks[i].pc = "sending" /\ response' # NoResponse /\ query' = query =>
                /\ Len(tasks') = Len(tasks) - 1
                /\ InFlight' = <<>>
                /\ ~Is204(response') => buffer' = tasks[i].dataToSend \o buffer]_vars

\* a second flush invocation is sending the snapshot whose send failed in an
\* earlier one
OneSendPerFlushWitness ==
    /\ lastFailed # NoFailure
    /\ lastFlush # NoFlush
    /\ \E i \in Sending(tasks) :
         /\ tasks[i].sends = 1
         /\ IsPrefix(lastFailed.data, tasks[i].dataToSend)

\* C25: in front of a server that fails every send holding the poison line,
\* neither that line nor any line accepted after it is ever delivered; once
\* accepted, the poison line is always in the buffer or in the in-flight
\* snapshot, and it is in every snapshot drained after it was accepted.
PoisonBlocksQueue ==
    /\ \A e \in Range(Flatten(delivered)) : e.id < PoisonId
    /\ Len(accepted) >= PoisonId =>
          Count(buffer \o InFlight, accepted[PoisonId]) = 1
    /\ InFlight # <<>> /\ drainMark >= PoisonId =>
          accepted[PoisonId] \in Range(InFlight)

\* the poison line failed in one flush and is in flight again with the line
\* accepted after it, the line before it having been delivered
PoisonBlocksQueueWitness ==
    /\ Len(accepted) > PoisonId
    /\ lastFailed # NoFailure
    /\ accepted[PoisonId] \in Range(lastFailed.data)
    /\ accepted[PoisonId] \in Range(InFlight)
    /\ accepted[PoisonId + 1] \in Range(InFlight)
    /\ Flatten(delivered) # <<>>

\* C26: in every step taken while a send stays unresolved, every other flush
\* invocation is waiting for the mutex, the in-flight snapshot and the
\* delivered snapshots stay as they are, a shutdown that awaits its flush
\* does not return, the buffer keeps all its lines and at most gains one at
\* its tail, and writePoint can still be called.
HungSendStalls ==
    [][Sending(tasks) # {} /\ Sending(tasks') # {} =>
          /\ \A j \in 1..Len(tasks') :
                j \notin Sending(tasks') => tasks'[j].pc = "waiting"
          /\ InFlight' = InFlight
          /\ delivered' = delivered
          /\ drainMark' = drainMark
          /\ shutdownPc = "awaiting" => shutdownPc' = "awaiting"
          /\ shutdownPc' = "returned" => shutdownPc = "returned"
          /\ IsPrefix(buffer, buffer')
          /\ buffer \o SubSeq(accepted', Len(accepted) + 1, Len(accepted')) = buffer'
          /\ Len(accepted) < MaxWrites => ENABLED WritePoint]_vars

\* a send is unresolved while a timer flush and the flush of shutdown wait
\* for the mutex and two lines written since the drain are in the buffer
HungSendStallsWitness ==
    /\ Sending(tasks) # {}
    /\ shutdownPc = "awaiting"
    /\ \E j \in 1..Len(tasks) : tasks[j].origin = "shutdown" /\ tasks[j].pc = "waiting"
    /\ \E j \in 1..Len(tasks) : tasks[j].origin = "timer" /\ tasks[j].pc = "waiting"
    /\ Len(buffer) >= 2
    /\ Len(accepted) = drainMark + Len(buffer)

\* C27: the step of a writePoint call that accepts a line leaves the line at
\* the tail of the buffer and drains nothing; when it invokes a flush, the
\* buffer has reached batchSize and the invocation has only joined the mutex:
\* it has no snapshot and has made no send.
ThresholdFireAndForget ==
    [][accepted' # accepted =>
          /\ buffer' = Append(buffer, accepted'[Len(accepted')])
          /\ InFlight' = InFlight
          /\ delivered' = delivered
          /\ drainMark' = drainMark
          /\ SubSeq(tasks', 1, Len(tasks)) = tasks
          /\ Len(tasks') \in {Len(tasks), Len(tasks) + 1}
          /\ Len(tasks') > Len(tasks) =>
                /\ tasks'[Len(tasks')].origin = "threshold"
                /\ tasks'[Len(tasks')].pc \in {"waiting", "acquired"}
                /\ tasks'[Len(tasks')].dataToSend = <<>>
                /\ tasks'[Len(tasks')].sends = 0
                /\ Len(buffer') >= options.batchSize]_vars

\* a threshold flush of a client with batchSize 1 is sending two lines: the
\* second was written before the deferred drain ran
ThresholdFireAndForgetWitness ==
    /\ options.batchSize = 1
    /\ \E i \in Sending(tasks) :
         /\ tasks[i].origin = "threshold"
         /\ Len(tasks[i].dataToSend) = 2
    /\ delivered = <<>>
    /\ lastFlush = NoFlush

\* C28 as stated, its safety part: when a flush invocation ends, the mutex is
\* free and nothing is in flight.
LockFreeAfterFlush ==
    [][Len(tasks') < Len(tasks) => ~mutexLocked' /\ InFlight' = <<>>]_vars

\* C28, amended: the mutex is taken exactly while a flush invocation is pending and
\* has one owner then; when an invocation ends, nothing is in flight and the
\* mutex is free, or has passed to the oldest waiting invocation; and with
\* every send resolving, a pending invocation always ends, and shutdown
\* returns.
LockReleased ==
    /\ [](/\ mutexLocked = (tasks # <<>>)
          /\ tasks # <<>> => Holders(tasks) = {1}
          /\ InFlight # <<>> => Sending(tasks) = {1})
    /\ [][Len(tasks') < Len(tasks) =>
            /\ InFlight' = <<>>
            /\ mutexLocked' = (tasks' # <<>>)
            /\ tasks' # <<>> => tasks'[1].pc = "acquired"]_vars
    /\ (shutdownPc = "awaiting") ~> (shutdownPc = "returned")
    /\ []<>(tasks = <<>>) \/ []<><<Len(tasks') < Len(tasks)>>_vars

\* a flush whose send failed has ended with its snapshot back in the buffer,
\* and the mutex has passed to the flush of shutdown, which waited for it
LockReleasedWitness ==
    /\ lastFailed # NoFailure
    /\ failedAfterShutdown
    /\ tasks # <<>>
    /\ tasks[1].origin = "shutdown" /\ tasks[1].pc = "acquired"
    /\ mutexLocked
    /\ InFlight = <<>>
    /\ buffer # <<>>

\* the place of the first equals sign of s that no backslash precedes, 0 when
\* there is none
FirstUnescapedEquals(s) ==
    LET at == {p \in 1..Len(s) : s[p] = "=" /\ (p = 1 \/ s[p - 1] # "\\")}
    IN IF at = {} THEN 0 ELSE CHOOSE p \in at : \A q \in at : p <= q

\* the line from field i on, as the encoder wrote it: its end, as long as
\* the entry of field i and what follows it
FromField(r, i) ==
    LET n == Len(Escaped(r.point.fields[i].k, NameChars)) + 1
             + Len(ValueText(r.point.fields[i])) + Len(AfterField(r.point, i))
    IN IF n > Len(r.line) THEN r.line
       ELSE SubSeq(r.line, Len(r.line) - n + 1, Len(r.line))

\* every field entry starts with its key, comma, equals sign and space of the
\* key each after a backslash, and an equals sign
FieldKeyEscapedLikeTag(r) ==
    \A i \in 1..Len(r.point.fields) :
        IsPrefix(Escaped(r.point.fields[i].k, NameChars) \o <<"=">>, FromField(r, i))

\* C29: in the line, every field entry starts with its key, each comma,
\* equals sign and space of the key preceded by a backslash, and the first
\* equals sign of the entry that no backslash precedes is the one between key
\* and value.
FieldKeysEscaped ==
    \A r \in formatted :
        ~r.throws =>
            /\ FieldKeyEscapedLikeTag(r)
            /\ \A i \in 1..Len(r.point.fields) :
                  FirstUnescapedEquals(FromField(r, i))
                      = Len(Escaped(r.point.fields[i].k, NameChars)) + 1

====
